---------------------------- MODULE Spec2Model ----------------------------
(***************************************************************************)
(* Scan-result pipeline of trivy: the kubernetes report aggregator         *)
(* (Report.consolidate, Report.Failed), the RPC scan client (Scanner.Scan) *)
(* and the dependency-origin tree of the table writer.                     *)
(*                                                                         *)
(* Strings that the code formats or case-folds (namespace, kind, name) are *)
(* sequences of one-character strings, so that Sprintf and ToLower are     *)
(* computed and not assumed.                                               *)
(***************************************************************************)
EXTENDS Integers, Sequences, FiniteSets, TLC

VARIABLES
    report,     \* k8s: the Report handed to consolidate / Failed
    ret,
    batch,      \* k8s: the scans of a batch, each with the Resource made of it
    arrays,     \* k8s: the backing arrays of the Results slices, by number
    held,       \* k8s: a Report whose Resources hold their Results as slices
    found,      \* k8s: what consolidate returned for held        \* k8s: what the last call returned
    result,     \* table: the types.Result being rendered (Packages, Vulnerabilities)
    twSeverities, \* table: TableWriter.Severities, the allow-list
    parents,    \* tree: the reverse dependency map of renderDependencyTree
    seen,       \* tree: package IDs already given a top-level branch
    vi,         \* tree: position of the loop over result.Vulnerabilities
    stack,      \* tree: the addParents calls in progress, outermost first
    tree,       \* tree: the branches added so far, in the order of AddBranch
    tpc,        \* tree: where renderDependencyTree is
    scanner,    \* rpc: the Scanner value (customHeaders, client)
    retryBudget, \* rpc: the attempts Retry allows one call
    plan,       \* rpc: per target, the failures its transport answers with, in order
    callerCancelled, \* rpc: the caller's deadline or cancellation signal has fired
    pc,         \* rpc: per target, where its Scan call is
    ctx,        \* rpc: per target, the context Scan built for the call
    attempts,   \* rpc: per target, the requests sent so far
    sent,       \* rpc: per target, what each attempt sent
    res,        \* rpc: per target, the res variable the closure assigns
    err,        \* rpc: per target, the error of the last attempt
    scanRet,    \* rpc: per target, what Scan returned
    tw,         \* table: the TableWriter the tasks share
    once,       \* table: the Once behind tw.ShowMessageOnce
    logged,     \* table: how often the file name message was logged
    reports,    \* table: per task, the report its Write was called with
    wpc,        \* table: per task, where its Write is
    ri,         \* table: per task, the index of the result Write is at
    wSeverityCount, \* table: per task, the wSeverityCount of write
    rowi,       \* table: per task, the index of the vulnerability being added
    rows,       \* table: per task, the rows of the table of write
    sums,       \* table: per task, total and summaries of write
    output,     \* table: what has been printed, in order
    store,      \* cache: blob key -> entry
    reachable,  \* cache: whether the backend can be reached
    calls,      \* cache: the calls made so far
    cacheRet,   \* cache: what the last call returned
    warnings,   \* cache: warnings logged
    inflight    \* cache: per caller, its call in progress or its last call

k8sVars == <<report, ret, batch, arrays, held, found>>

treeVars == <<result, twSeverities, parents, seen, vi, stack, tree, tpc>>

scanVars == <<scanner, retryBudget, plan, callerCancelled, pc, ctx, attempts, sent,
              res, err, scanRet>>

writeVars == <<tw, once, logged, reports, wpc, ri, wSeverityCount, rowi, rows, sums,
               output>>

cacheVars == <<store, reachable, calls, cacheRet, warnings, inflight>>

vars == <<report, ret, batch, arrays, held, found, result, twSeverities, parents, seen, vi, stack, tree, tpc,
          scanner, retryBudget, plan, callerCancelled, pc, ctx, attempts, sent,
          res, err, scanRet, tw, once, logged, reports, wpc, ri, wSeverityCount,
          rowi, rows, sums, output, store, reachable, calls, cacheRet, warnings,
          inflight>>

(***************************************************************************)
(* Generic helpers                                                         *)
(***************************************************************************)
Range(s) == {s[i] : i \in DOMAIN s}

SeqsUpTo(S, n) == UNION {[1..k -> S] : k \in 0..n}

\* all orders in which the elements of a finite set can be listed
Orders(S) == {s \in [1..Cardinality(S) -> S] : Range(s) = S}

RECURSIVE Concat(_)
Concat(ss) == IF ss = <<>> THEN <<>> ELSE Head(ss) \o Concat(Tail(ss))

\* a Go map: a function whose domain is the set of keys present
EmptyMap == [k \in {} |-> {}]

Put(m, k, v) == [x \in (DOMAIN m) \cup {k} |-> IF x = k THEN v ELSE m[x]]

(***************************************************************************)
(* k8s report: bounds and input samples                                    *)
(***************************************************************************)
\* Resources in Misconfigurations and Vulnerabilities together
MaxResources == 2

\* {namespace, kind, name} of the input Resources: two that differ only in
\* letter case, and two whose components hold the separator that fullname
\* joins them with.
Identities ==
    { << <<"d">>, <<"P">>, <<"a">> >>,
      << <<"D">>, <<"p">>, <<"A">> >>,
      << <<"d">>, <<"p", "/", "a">>, <<"c">> >>,
      << <<"d", "/", "p">>, <<"a">>, <<"c">> >> }

\* types.Result, as far as the aggregator looks at it: which target it is
\* for, and whether it fails its own threshold check
Passing == [Target |-> "t1", Fails |-> FALSE]

Failing == [Target |-> "t2", Fails |-> TRUE]

\* the Results lists an input Resource may carry
ResultLists == { <<>>, <<Passing>>, <<Failing>>, <<Passing, Failing>> }

Errors == {"", "forbidden"}

Resources ==
    { [Namespace |-> id[1], Kind |-> id[2], Name |-> id[3],
       Results |-> rs, Error |-> e] :
        id \in Identities, rs \in ResultLists, e \in Errors }

(***************************************************************************)
(* Resource.fullname                                                       *)
(***************************************************************************)
\* strings.ToLower on the letters the samples use
ToLowerChar(c) ==
    CASE c = "A" -> "a"
      [] c = "D" -> "d"
      [] c = "P" -> "p"
      [] OTHER -> c

ToLower(s) == [i \in 1..Len(s) |-> ToLowerChar(s[i])]

\* fmt.Sprintf("%s/%s/%s", ns, kind, name)
Sprintf3(ns, kind, name) == ns \o <<"/">> \o kind \o <<"/">> \o name

fullname_NoLower(r) == Sprintf3(r.Namespace, r.Kind, r.Name)

fullname(r) == ToLower(Sprintf3(r.Namespace, r.Kind, r.Name))

(***************************************************************************)
(* Report.Failed                                                           *)
(***************************************************************************)
\* types.Results.Failed: the Result collection's own threshold check
ResultsFailed(results) == \E i \in DOMAIN results : results[i].Fails

\* for _, r := range list { if r.Results.Failed() { return true } }
rangeFailed_StopAtPass(list) ==
    IF list = <<>> THEN FALSE
    ELSE IF ResultsFailed(Head(list).Results) THEN TRUE
    ELSE FALSE

RECURSIVE rangeFailed(_)
rangeFailed(list) ==
    IF list = <<>> THEN FALSE
    ELSE IF ResultsFailed(Head(list).Results) THEN TRUE
    ELSE rangeFailed(Tail(list))

Failed(r) ==
    IF rangeFailed(r.Vulnerabilities) THEN TRUE
    ELSE IF rangeFailed(r.Misconfigurations) THEN TRUE
    ELSE FALSE

(***************************************************************************)
(* Report.consolidate                                                      *)
(***************************************************************************)
\* for _, m := range r.Misconfigurations { index[m.fullname()] = m }
RECURSIVE indexMisconfigurations(_, _)
indexMisconfigurations(index, ms) ==
    IF ms = <<>> THEN index
    ELSE indexMisconfigurations(Put(index, fullname(Head(ms)), Head(ms)), Tail(ms))

\* the Resource literal built when the key is already in the index
mergeResource_Swapped(r, v) ==
    [Namespace |-> r.Namespace, Kind |-> r.Kind, Name |-> r.Name,
     Results |-> v.Results \o r.Results, Error |-> r.Error]

mergeResource_Incoming(r, v) ==
    [Namespace |-> v.Namespace, Kind |-> v.Kind, Name |-> v.Name,
     Results |-> r.Results \o v.Results, Error |-> v.Error]

mergeResource(r, v) ==
    [Namespace |-> r.Namespace, Kind |-> r.Kind, Name |-> r.Name,
     Results |-> r.Results \o v.Results, Error |-> r.Error]

\* one pass of the loop over r.Vulnerabilities
vulnerabilityStep(index, v) ==
    LET key == fullname(v)
    IN  IF key \in DOMAIN index
        THEN Put(index, key, mergeResource(index[key], v))
        ELSE Put(index, key, v)

RECURSIVE indexVulnerabilities(_, _)
indexVulnerabilities(index, vs) ==
    IF vs = <<>> THEN index
    ELSE indexVulnerabilities(vulnerabilityStep(index, Head(vs)), Tail(vs))

\* the index when both loops are done
consolidateIndex(r) ==
    indexVulnerabilities(indexMisconfigurations(EmptyMap, r.Misconfigurations),
                         r.Vulnerabilities)

\* maps.Values(index): the values, in an order the map does not fix
mapsValues(index) ==
    { [i \in 1..Len(o) |-> index[o[i]]] : o \in Orders(DOMAIN index) }

NoCall == [op |-> "none"]

\* no Report is held as slices
SlicesIdle ==
    /\ arrays = <<>>
    /\ held = [Misconfigurations |-> <<>>, Vulnerabilities |-> <<>>]
    /\ found = NoCall

K8sIdle ==
    /\ report = [Misconfigurations |-> <<>>, Vulnerabilities |-> <<>>]
    /\ ret = NoCall
    /\ batch = <<>>
    /\ SlicesIdle

K8sInit ==
    /\ \E i \in 0..MaxResources :
          \E j \in 0..(MaxResources - i) :
             \E m \in [1..i -> Resources], v \in [1..j -> Resources] :
                report = [Misconfigurations |-> m, Vulnerabilities |-> v]
    /\ ret = NoCall
    /\ batch = <<>>
    /\ SlicesIdle

\* consolidated := r.consolidate()
Consolidate ==
    /\ ret.op = "none"
    /\ \E findings \in mapsValues(consolidateIndex(report)) :
          ret' = [op |-> "consolidate", Findings |-> findings]
    /\ UNCHANGED <<report, batch, arrays, held, found, treeVars, scanVars, writeVars, cacheVars>>

\* r.Failed()
CallFailed ==
    /\ ret.op = "none"
    /\ ret' = [op |-> "Failed", val |-> Failed(report)]
    /\ UNCHANGED <<report, batch, arrays, held, found, treeVars, scanVars, writeVars, cacheVars>>

K8sNext == Consolidate \/ CallFailed


(***************************************************************************)
(* Report.consolidate over the backing arrays of the Results slices        *)
(***************************************************************************)
\* Resources in Vulnerabilities of the held Report
MaxColliding == 2

\* {namespace, kind, name}: two that have one key, and a third
SliceIdentities ==
    { << <<"d">>, <<"P">>, <<"a">> >>,
      << <<"D">>, <<"p">>, <<"A">> >>,
      << <<"d">>, <<"N">>, <<"b">> >> }

\* length and capacity of a Results slice: empty, full as createResource
\* makes it, and with room behind its last element
SliceShapes ==
    { [len |-> 0, cap |-> 0], [len |-> 1, cap |-> 1],
      [len |-> 1, cap |-> 3], [len |-> 2, cap |-> 2] }

\* the zero value of an array element nothing was stored in
Zero == <<0, 0>>

\* the backing array number n: element k of the slice is <<n, k>>
arrayOf(n, shape) == [k \in 1..shape.cap |-> IF k <= shape.len THEN <<n, k>> ELSE Zero]

\* the Resource number n, which holds the first len elements of array n
sliceResource(n, id, shape) ==
    [Namespace |-> id[1], Kind |-> id[2], Name |-> id[3],
     Results |-> [array |-> n, len |-> shape.len], Error |-> ""]

\* the elements a slice shows
Elements(mem, s) == [k \in 1..s.len |-> mem[s.array][k]]

appendAt_Front(s) == 0

\* the index behind which append stores the new elements
appendAt(s) == s.len

\* the capacity of the array append allocates when the old one is too small
growslice(oldCap, needed) == IF needed > 2 * oldCap THEN needed ELSE 2 * oldCap

\* append(s, t...): in place when the capacity of s allows, else into a new
\* array that the elements of s are copied to
append(mem, s, t) ==
    LET new == Elements(mem, t)
        at == appendAt(s)
        needed == at + t.len
        old == mem[s.array]
    IN  IF needed <= Len(old)
        THEN [arrays |-> [mem EXCEPT ![s.array] =
                            [k \in 1..Len(old) |->
                               IF k > at /\ k <= needed THEN new[k - at] ELSE old[k]]],
              slice |-> [array |-> s.array, len |-> needed]]
        ELSE [arrays |-> Append(mem,
                            [k \in 1..growslice(Len(old), needed) |->
                               IF k <= at THEN old[k]
                               ELSE IF k <= needed THEN new[k - at]
                               ELSE Zero]),
              slice |-> [array |-> Len(mem) + 1, len |-> needed]]

\* the loop over r.Vulnerabilities, with the arrays it writes
RECURSIVE rangeVulnerabilities(_, _, _)
rangeVulnerabilities(mem, index, vs) ==
    IF vs = <<>> THEN [arrays |-> mem, index |-> index]
    ELSE LET v == Head(vs)
             key == fullname(v)
         IN  IF key \in DOMAIN index
             THEN LET r == index[key]
                      a == append(mem, r.Results, v.Results)
                  IN  rangeVulnerabilities(
                          a.arrays,
                          Put(index, key,
                              [Namespace |-> r.Namespace, Kind |-> r.Kind,
                               Name |-> r.Name, Results |-> a.slice,
                               Error |-> r.Error]),
                          Tail(vs))
             ELSE rangeVulnerabilities(mem, Put(index, key, v), Tail(vs))

SlicesInit ==
    /\ \E i \in 0..1, j \in 0..MaxColliding :
          \E ids \in [1..(i + j) -> SliceIdentities],
             shapes \in [1..(i + j) -> SliceShapes] :
             /\ arrays = [n \in 1..(i + j) |-> arrayOf(n, shapes[n])]
             /\ held = [Misconfigurations |->
                           [n \in 1..i |-> sliceResource(n, ids[n], shapes[n])],
                        Vulnerabilities |->
                           [n \in 1..j |-> sliceResource(i + n, ids[i + n], shapes[i + n])]]
    /\ found = NoCall
    /\ report = [Misconfigurations |-> <<>>, Vulnerabilities |-> <<>>]
    /\ ret = NoCall
    /\ batch = <<>>

\* consolidated := held.consolidate()
ConsolidateSlices ==
    /\ found = NoCall
    /\ LET done == rangeVulnerabilities(
                       arrays,
                       indexMisconfigurations(EmptyMap, held.Misconfigurations),
                       held.Vulnerabilities)
       IN  /\ arrays' = done.arrays
           /\ \E findings \in mapsValues(done.index) :
                 found' = [op |-> "consolidate", Findings |-> findings]
    /\ UNCHANGED <<held, report, ret, batch, treeVars, scanVars, writeVars, cacheVars>>

SlicesNext == ConsolidateSlices

(***************************************************************************)
(* createResource: one Resource per scanned cluster resource               *)
(***************************************************************************)
\* scans of one batch
MaxBatch == 2

\* artifacts.Artifact: Namespace, Kind, Name
Artifacts ==
    { [Namespace |-> <<"d">>, Kind |-> <<"P">>, Name |-> <<"a">>],
      [Namespace |-> <<>>, Kind |-> <<"N">>, Name |-> <<"b">>] }

\* the Results of a scan's report: Type, Class and Target of each
ScanResultLists ==
    { <<>>,
      <<[Type |-> "alpine", Class |-> "os-pkgs", Target |-> <<"i">>]>>,
      <<[Type |-> "kubernetes", Class |-> "config", Target |-> <<"/", "t">>]>>,
      <<[Type |-> "kubernetes", Class |-> "config", Target |-> <<"/", "t">>],
        [Type |-> "alpine", Class |-> "os-pkgs", Target |-> <<"i">>],
        [Type |-> "kubernetes", Class |-> "secret", Target |-> <<"/", "u">>]>> }

Nil == [kind |-> "nil"]

\* the err of a scan: none, or an error with its message
ScanErrors == {Nil, [kind |-> "error", msg |-> "forbidden"], [kind |-> "error", msg |-> ""]}

\* fmt.Sprintf("%s/%s", artifact.Kind, artifact.Name)
Sprintf2(kind, name) == kind \o <<"/">> \o name

\* the body of the loop: the target of a kubernetes file is replaced
fixTarget(artifact, res0) ==
    IF res0.Type = "kubernetes"
    THEN [res0 EXCEPT !.Target = Sprintf2(artifact.Kind, artifact.Name)]
    ELSE res0

resourceError_Always(e) == "scan failed"

\* if err != nil { r.Error = err.Error() }
resourceError(e) == IF e # Nil THEN e.msg ELSE ""

createResource(artifact, rep, e) ==
    [Namespace |-> artifact.Namespace, Kind |-> artifact.Kind, Name |-> artifact.Name,
     Results |-> [i \in DOMAIN rep.Results |-> fixTarget(artifact, rep.Results[i])],
     Report |-> rep,
     Error |-> resourceError(e)]

\* the next scan of the batch has ended and its Resource is made
CreateResource(artifact, rep, e) ==
    /\ Len(batch) < MaxBatch
    /\ batch' = Append(batch, [artifact |-> artifact, report |-> rep, err |-> e,
                               resource |-> createResource(artifact, rep, e)])
    /\ UNCHANGED <<report, ret, arrays, held, found, treeVars, scanVars, writeVars, cacheVars>>

CreateInit ==
    /\ report = [Misconfigurations |-> <<>>, Vulnerabilities |-> <<>>]
    /\ ret = NoCall
    /\ batch = <<>>
    /\ SlicesIdle

CreateNext ==
    \E artifact \in Artifacts, rs \in ScanResultLists, e \in ScanErrors :
       CreateResource(artifact, [Results |-> rs], e)

(***************************************************************************)
(* Table writer: severity summary                                          *)
(***************************************************************************)
\* dbTypes.SeverityNames
SeverityNames_Swapped == <<"UNKNOWN", "LOW", "MEDIUM", "CRITICAL", "HIGH">>

SeverityNames == <<"UNKNOWN", "LOW", "MEDIUM", "HIGH", "CRITICAL">>

\* a map's value for a key, or the zero value when the key is absent
Lookup(m, k, zero) == IF k \in DOMAIN m THEN m[k] ELSE zero

\* TableWriter.summary: <<total, summaries>>, a summary "SEV: n" kept as <<SEV, n>>
RECURSIVE summaryFrom(_, _, _, _)
summaryFrom_TotalOfAll(i, severities, severityCount, acc) ==
    IF i > Len(SeverityNames) THEN acc
    ELSE LET severity == SeverityNames[i]
             count == Lookup(severityCount, severity, 0)
         IN  IF severity \notin Range(severities)
             THEN summaryFrom(i + 1, severities, severityCount,
                              <<acc[1] + count, acc[2]>>)
             ELSE summaryFrom(i + 1, severities, severityCount,
                              <<acc[1] + count, Append(acc[2], <<severity, count>>)>>)

summaryFrom(i, severities, severityCount, acc) ==
    IF i > Len(SeverityNames) THEN acc
    ELSE LET severity == SeverityNames[i]
             count == Lookup(severityCount, severity, 0)
         IN  IF severity \notin Range(severities)
             THEN summaryFrom(i + 1, severities, severityCount, acc)
             ELSE summaryFrom(i + 1, severities, severityCount,
                              <<acc[1] + count, Append(acc[2], <<severity, count>>)>>)

summary(severities, severityCount) == summaryFrom(1, severities, severityCount, <<0, <<>>>>)

(***************************************************************************)
(* Table writer: dependency origin tree                                    *)
(***************************************************************************)
\* DependsOn edges of all packages of a result together
MaxEdges == 3

\* vulnerabilities of a result
MaxVulns == 2

\* addParents calls nested in one another; the Go runtime ends the process
\* when the nesting outgrows the goroutine stack
MaxDepth == 4

PkgIDs == {"A", "B", "C"}

VulnPkgIDs == {"A", "B"}

VulnSeverities == {"LOW", "HIGH"}

SeverityLists == { <<"HIGH">>, <<"HIGH", "LOW">> }

\* lo.Uniq: the first occurrence of each element, in order
Uniq_Identity(s) == s

RECURSIVE Uniq(_)
Uniq(s) ==
    IF s = <<>> THEN <<>>
    ELSE LET init == Uniq(SubSeq(s, 1, Len(s) - 1))
             last == s[Len(s)]
         IN  IF last \in Range(init) THEN init ELSE Append(init, last)

\* the inner loop of reverseDeps: one package's DependsOn
RECURSIVE addDependsOn(_, _, _)
addDependsOn(reversed, id, dependsOn) ==
    IF dependsOn = <<>> THEN reversed
    ELSE LET dependOn == Head(dependsOn)
         IN  addDependsOn(
                 IF dependOn \notin DOMAIN reversed
                 THEN Put(reversed, dependOn, <<id>>)
                 ELSE Put(reversed, dependOn, Append(reversed[dependOn], id)),
                 id, Tail(dependsOn))

RECURSIVE addLibs(_, _)
addLibs(reversed, libs) ==
    IF libs = <<>> THEN reversed
    ELSE addLibs(addDependsOn(reversed, Head(libs).ID, Head(libs).DependsOn), Tail(libs))

reverseDeps(libs) ==
    LET reversed == addLibs(EmptyMap, libs)
    IN  [k \in DOMAIN reversed |-> Uniq(reversed[k])]

\* pkgSeverityCount of renderDependencyTree: per package ID, severity -> count
RECURSIVE countPkgSeverities(_, _)
countPkgSeverities_FirstOnly(counts, vulnerabilities) ==
    IF vulnerabilities = <<>> THEN counts
    ELSE LET vuln == Head(vulnerabilities)
         IN  countPkgSeverities(
                 IF vuln.PkgID \in DOMAIN counts THEN counts
                 ELSE Put(counts, vuln.PkgID, Put(EmptyMap, vuln.Severity, 1)),
                 Tail(vulnerabilities))

countPkgSeverities(counts, vulnerabilities) ==
    IF vulnerabilities = <<>> THEN counts
    ELSE LET vuln == Head(vulnerabilities)
             cnts == Lookup(counts, vuln.PkgID, EmptyMap)
         IN  countPkgSeverities(
                 Put(counts, vuln.PkgID,
                     Put(cnts, vuln.Severity, Lookup(cnts, vuln.Severity, 0) + 1)),
                 Tail(vulnerabilities))

pkgSeverityCount == countPkgSeverities(EmptyMap, result.Vulnerabilities)

parentsOf_First(pkgID) ==
    IF pkgID \in DOMAIN parents THEN <<parents[pkgID][1]>> ELSE <<>>

\* parents, ok := parentMap[pkgID]: the parents addParents ranges over
parentsOf(pkgID) == Lookup(parents, pkgID, <<>>)

\* the package IDs from the top-level branch down to the call in progress
CurrentPath == [i \in DOMAIN stack |-> stack[i].pkgID]

EmptyResult == [Packages |-> <<>>, Vulnerabilities |-> <<>>]

TreeIdle ==
    /\ result = EmptyResult
    /\ twSeverities = <<>>
    /\ parents = EmptyMap
    /\ seen = {}
    /\ vi = 0
    /\ stack = <<>>
    /\ tree = <<>>
    /\ tpc = "idle"

\* the vulnerabilities of the inputs: of two packages, one of them with
\* two severities
VulnSamples ==
    {v \in [PkgID : VulnPkgIDs, Severity : VulnSeverities] :
        v.PkgID = "B" \/ v.Severity = "HIGH"}

\* one package per ID, with the DependsOn lists a, b and c
Packages(a, b, c) ==
    <<[ID |-> "A", DependsOn |-> a], [ID |-> "B", DependsOn |-> b],
      [ID |-> "C", DependsOn |-> c]>>

TreeInit ==
    /\ \E a \in SeqsUpTo(PkgIDs, MaxEdges) :
       \E b \in SeqsUpTo(PkgIDs, MaxEdges - Len(a)) :
       \E c \in SeqsUpTo(PkgIDs, MaxEdges - Len(a) - Len(b)) :
       \E vulns \in SeqsUpTo(VulnSamples, MaxVulns) :
          result = [Packages |-> Packages(a, b, c), Vulnerabilities |-> vulns]
    /\ twSeverities \in SeverityLists
    /\ parents = EmptyMap
    /\ seen = {}
    /\ vi = 0
    /\ stack = <<>>
    /\ tree = <<>>
    /\ tpc = "start"

\* parents := reverseDeps(result.Packages); if len(parents) == 0 { return }
RenderStart ==
    /\ tpc = "start"
    /\ parents' = reverseDeps(result.Packages)
    /\ vi' = 1
    /\ tpc' = IF DOMAIN parents' = {} THEN "returned" ELSE "loop"
    /\ UNCHANGED <<result, twSeverities, seen, stack, tree, k8sVars, scanVars,
                   writeVars, cacheVars>>

\* one pass of the loop over result.Vulnerabilities, up to the call of addParents
NextVuln ==
    /\ tpc = "loop"
    /\ vi <= Len(result.Vulnerabilities)
    /\ LET vuln == result.Vulnerabilities[vi]
       IN  IF vuln.PkgID \in seen
           THEN /\ vi' = vi + 1
                /\ UNCHANGED <<seen, stack, tree, tpc>>
           ELSE /\ seen' = seen \cup {vuln.PkgID}
                /\ tree' = Append(tree,
                       [path |-> <<vuln.PkgID>>,
                        summaries |-> summary(twSeverities,
                                              pkgSeverityCount[vuln.PkgID])[2]])
                /\ stack' = <<[pkgID |-> vuln.PkgID, next |-> 1]>>
                /\ tpc' = "walk"
                /\ UNCHANGED vi
    /\ UNCHANGED <<result, twSeverities, parents, k8sVars, scanVars,
                   writeVars, cacheVars>>

\* addParents: the innermost call takes its next parent, adds the branch and
\* calls itself for it, or returns when it has none left
AddParentsStep ==
    /\ tpc = "walk"
    /\ LET top == stack[Len(stack)]
           ps == parentsOf(top.pkgID)
       IN  IF top.next > Len(ps)
           THEN /\ stack' = SubSeq(stack, 1, Len(stack) - 1)
                /\ tpc' = IF Len(stack) = 1 THEN "loop" ELSE "walk"
                /\ vi' = IF Len(stack) = 1 THEN vi + 1 ELSE vi
                /\ UNCHANGED tree
           ELSE IF Len(stack) >= MaxDepth
           THEN /\ tpc' = "overflow"
                /\ UNCHANGED <<stack, tree, vi>>
           ELSE /\ tree' = Append(tree,
                       [path |-> Append(CurrentPath, ps[top.next]), summaries |-> <<>>])
                /\ stack' = Append([stack EXCEPT ![Len(stack)].next = top.next + 1],
                                   [pkgID |-> ps[top.next], next |-> 1])
                /\ UNCHANGED <<tpc, vi>>
    /\ UNCHANGED <<result, twSeverities, parents, seen, k8sVars, scanVars,
                   writeVars, cacheVars>>

\* tw.Println(root.String())
PrintTree ==
    /\ tpc = "loop"
    /\ vi > Len(result.Vulnerabilities)
    /\ tpc' = "printed"
    /\ UNCHANGED <<result, twSeverities, parents, seen, vi, stack, tree, k8sVars, scanVars,
                   writeVars, cacheVars>>

TreeNext == RenderStart \/ NextVuln \/ AddParentsStep \/ PrintTree

(***************************************************************************)
(* RPC client: Scanner.Scan                                                *)
(***************************************************************************)
\* failures one transport answers with before it succeeds
MaxFailures == 2

\* attempts Retry may be configured to allow
MaxBudget == 3

\* the scan targets dispatched side by side
Targets == {"t1", "t2"}

\* TransportError, ApplicationError, DecodeError
FailureKinds == {"transport", "application", "decode"}

\* what the caller passes to Scan for target t
ScanArgs(t) ==
    [target |-> t, artifactKey |-> <<"artifact", t>>,
     blobKeys |-> <<<<"blob", t, 1>>, <<"blob", t, 2>>>>,
     options |-> [VulnType |-> <<"os", "library">>,
                  SecurityChecks |-> <<"vuln", "config">>,
                  ListAllPackages |-> (t = "t1")]]

\* the server's answer for target t
Response(t) == [kind |-> "response", Results |-> <<"rpc", "results", t>>,
                Os |-> <<"rpc", "os", t>>]

\* r.ConvertFromRPCResults, r.ConvertFromRPCOS
ConvertFromRPC(x) == <<"types", x[2], x[3]>>

\* WithCustomHeaders(context.Background(), headers)
WithCustomHeaders(parent, headers) == [parent |-> parent, headers |-> headers]

\* a context derived from context.Background() has no deadline and is never
\* cancelled; one derived from the caller's context ends with it
CtxDone(c) == IF c.parent = "Background" THEN FALSE ELSE callerCancelled

scanContext_NoHeaders(s) == WithCustomHeaders("Background", <<>>)

\* ctx := WithCustomHeaders(context.Background(), http.Header(s.customHeaders))
scanContext(s) == WithCustomHeaders("Background", s.customHeaders)

scanRequest_KeysReversed(a) ==
    [Target |-> a.target, ArtifactId |-> a.artifactKey,
     BlobIds |-> [i \in DOMAIN a.blobKeys |-> a.blobKeys[Len(a.blobKeys) + 1 - i]],
     Options |-> [VulnType |-> a.options.VulnType,
                  SecurityChecks |-> a.options.SecurityChecks,
                  ListAllPackages |-> a.options.ListAllPackages]]

\* the rpc.ScanRequest literal of the closure
scanRequest(a) ==
    [Target |-> a.target, ArtifactId |-> a.artifactKey, BlobIds |-> a.blobKeys,
     Options |-> [VulnType |-> a.options.VulnType,
                  SecurityChecks |-> a.options.SecurityChecks,
                  ListAllPackages |-> a.options.ListAllPackages]]

\* s.client.Scan over the transport: the n-th request of a call
clientScan(t, c, n) ==
    IF CtxDone(c) THEN [res |-> Nil, err |-> [kind |-> "cancelled"]]
    ELSE IF n <= Len(plan[t]) THEN [res |-> Nil, err |-> [kind |-> plan[t][n]]]
    ELSE [res |-> Response(t), err |-> Nil]

\* Retry: whether an error is worth another attempt
retryable_Any(e) == e # Nil

retryable(e) == e.kind = "transport"

retryAgain_SharedBudget(e, n) ==
    retryable(e) /\ attempts["t1"] + attempts["t2"] + 1 < retryBudget

\* Retry: after the n-th attempt ended with e, go on or give up
retryAgain(e, n) == retryable(e) /\ n < retryBudget

\* if err != nil { return nil, nil, xerrors.Errorf("...: %w", err) }
\* return r.ConvertFromRPCResults(res.Results), r.ConvertFromRPCOS(res.Os), nil
scanReturn_Unwrapped(r, e) ==
    IF e # Nil
    THEN [results |-> Nil, os |-> Nil, err |-> e]
    ELSE [results |-> ConvertFromRPC(r.Results), os |-> ConvertFromRPC(r.Os), err |-> Nil]

scanReturn(r, e) ==
    IF e # Nil
    THEN [results |-> Nil, os |-> Nil,
          err |-> [kind |-> "wrapped",
                   msg |-> "failed to detect vulnerabilities via RPC", cause |-> e]]
    ELSE [results |-> ConvertFromRPC(r.Results), os |-> ConvertFromRPC(r.Os), err |-> Nil]

ScanIdle ==
    /\ scanner = [customHeaders |-> <<>>, client |-> "none"]
    /\ retryBudget = 0
    /\ plan = [t \in Targets |-> <<>>]
    /\ callerCancelled = FALSE
    /\ pc = [t \in Targets |-> "off"]
    /\ ctx = [t \in Targets |-> Nil]
    /\ attempts = [t \in Targets |-> 0]
    /\ sent = [t \in Targets |-> <<>>]
    /\ res = [t \in Targets |-> Nil]
    /\ err = [t \in Targets |-> Nil]
    /\ scanRet = [t \in Targets |-> Nil]

ScanInit ==
    /\ scanner = [customHeaders |-> <<<<"Trivy-Token", "secret">>>>, client |-> "twirp"]
    /\ retryBudget \in 1..MaxBudget
    /\ plan \in [Targets -> SeqsUpTo(FailureKinds, MaxFailures)]
    /\ callerCancelled = FALSE
    /\ pc = [t \in Targets |-> "idle"]
    /\ ctx = [t \in Targets |-> Nil]
    /\ attempts = [t \in Targets |-> 0]
    /\ sent = [t \in Targets |-> <<>>]
    /\ res = [t \in Targets |-> Nil]
    /\ err = [t \in Targets |-> Nil]
    /\ scanRet = [t \in Targets |-> Nil]

\* Scan is called for target t: the context is built, Retry is entered
ScanStart(t) ==
    /\ pc[t] = "idle"
    /\ ctx' = [ctx EXCEPT ![t] = scanContext(scanner)]
    /\ pc' = [pc EXCEPT ![t] = "retry"]
    /\ UNCHANGED <<scanner, retryBudget, plan, callerCancelled, attempts, sent, res,
                   err, scanRet, k8sVars, treeVars, writeVars, cacheVars>>

\* Retry runs the closure once: it sends the request, assigns res and err,
\* and Retry decides whether to run it again. A context that is already done
\* makes the client return its error without sending anything.
Attempt(t) ==
    /\ pc[t] = "retry"
    /\ LET n == attempts[t] + 1
           answer == clientScan(t, ctx[t], n)
       IN  /\ attempts' = [attempts EXCEPT ![t] = IF CtxDone(ctx[t]) THEN @ ELSE n]
           /\ sent' = [sent EXCEPT ![t] =
                          IF CtxDone(ctx[t]) THEN @
                          ELSE Append(@, [headers |-> ctx[t].headers,
                                          request |-> scanRequest(ScanArgs(t))])]
           /\ res' = [res EXCEPT ![t] = answer.res]
           /\ err' = [err EXCEPT ![t] = answer.err]
           /\ pc' = [pc EXCEPT ![t] =
                        IF answer.err # Nil /\ retryAgain(answer.err, n)
                        THEN "retry" ELSE "return"]
    /\ UNCHANGED <<scanner, retryBudget, plan, callerCancelled, ctx, scanRet,
                   k8sVars, treeVars, writeVars, cacheVars>>

\* Retry has returned: Scan returns
ScanReturn(t) ==
    /\ pc[t] = "return"
    /\ scanRet' = [scanRet EXCEPT ![t] = scanReturn(res[t], err[t])]
    /\ pc' = [pc EXCEPT ![t] = "done"]
    /\ UNCHANGED <<scanner, retryBudget, plan, callerCancelled, ctx, attempts, sent,
                   res, err, k8sVars, treeVars, writeVars, cacheVars>>

\* the caller's deadline passes, or the caller cancels
CallerCancel ==
    /\ ~callerCancelled
    /\ callerCancelled' = TRUE
    /\ UNCHANGED <<scanner, retryBudget, plan, pc, ctx, attempts, sent, res, err,
                   scanRet, k8sVars, treeVars, writeVars, cacheVars>>

ScanNext ==
    \/ \E t \in Targets : ScanStart(t) \/ Attempt(t) \/ ScanReturn(t)
    \/ CallerCancel

(***************************************************************************)
(* table writer: Write and write of concurrent tasks sharing one Once      *)
(***************************************************************************)
\* vulnerabilities of one result
MaxRows == 2

\* entries of the severity allow-list
MaxAllow == 2

Tasks == {"w1", "w2"}

StatusFailure == "FAIL"

\* dbTypes.Severity values of the allow-lists: LOW, HIGH, CRITICAL
AllowSeverities == {1, 3, 4}

AllowLists == SeqsUpTo(AllowSeverities, MaxAllow)

VulnerabilityKinds ==
    { [Severity |-> "LOW", PkgPath |-> ""],
      [Severity |-> "HIGH", PkgPath |-> ""],
      [Severity |-> "HIGH", PkgPath |-> "p"] }

PathKinds == {v \in VulnerabilityKinds : v.Severity = "HIGH"}

PlainKinds == {v \in VulnerabilityKinds : v.PkgPath = ""}

SecretLists ==
    { <<>>, <<[Severity |-> "HIGH"]>>,
      <<[Severity |-> "CRITICAL"], [Severity |-> "HIGH"]>> }

MisconfigurationLists ==
    { <<>>,
      <<[Status |-> "PASS", Severity |-> "HIGH"]>>,
      <<[Status |-> StatusFailure, Severity |-> "HIGH"]>>,
      <<[Status |-> StatusFailure, Severity |-> "LOW"],
        [Status |-> "PASS", Severity |-> "LOW"],
        [Status |-> StatusFailure, Severity |-> "HIGH"]>> }

Classes == {"os-pkgs", "config", "secret", "custom"}

\* sev.String() of every entry of tw.Severities
severityStrings(sevs) == [i \in DOMAIN sevs |-> SeverityNames[sevs[i] + 1]]

increment(counts, severity) == Put(counts, severity, Lookup(counts, severity, 0) + 1)

counted_AnyStatus(misconf) == TRUE

\* the misconfigurations countSeverities counts
counted(misconf) == misconf.Status = StatusFailure

RECURSIVE countMisconfigurations(_, _)
countMisconfigurations(counts, misconfs) ==
    IF misconfs = <<>> THEN counts
    ELSE LET misconf == Head(misconfs)
         IN  countMisconfigurations(
                 IF counted(misconf) THEN increment(counts, misconf.Severity)
                 ELSE counts,
                 Tail(misconfs))

\* the loops over Secrets and over Vulnerabilities
RECURSIVE countFindings(_, _)
countFindings(counts, findings) ==
    IF findings = <<>> THEN counts
    ELSE countFindings(increment(counts, Head(findings).Severity), Tail(findings))

countSeverities_RowsOnly(r) ==
    countFindings(EmptyMap,
                  IF Len(r.Vulnerabilities) > 0 THEN r.Vulnerabilities ELSE r.Secrets)

countSeverities(r) ==
    countFindings(
        countFindings(countMisconfigurations(EmptyMap, r.Misconfigurations), r.Secrets),
        r.Vulnerabilities)

\* the row setVulnerabilityRows adds for v: lib holds the file name when the
\* package has a path
vulnerabilityRow(v) ==
    [kind |-> "vulnerability", Severity |-> v.Severity, fileName |-> v.PkgPath # ""]

secretRow(secret) == [kind |-> "secret", Severity |-> secret.Severity, fileName |-> FALSE]

\* Mutex.Lock of the Once can be taken
mutexFree_NoExclusion(o) == TRUE

mutexFree(o) == o.m = "free"

hidden_Never(r) == FALSE

\* write returns before the header is printed
hidden(r) ==
    \/ r.Class = "config" /\ Len(r.Misconfigurations) = 0
    \/ r.Class = "secret" /\ Len(r.Secrets) = 0

\* the result Write is at in task t
Current(t) == reports[t][ri[t]]

WriteIdle ==
    /\ tw = [Severities |-> <<>>]
    /\ once = [done |-> FALSE, m |-> "free"]
    /\ logged = 0
    /\ reports = [t \in Tasks |-> <<>>]
    /\ wpc = [t \in Tasks |-> "done"]
    /\ ri = [t \in Tasks |-> 1]
    /\ wSeverityCount = [t \in Tasks |-> EmptyMap]
    /\ rowi = [t \in Tasks |-> 1]
    /\ rows = [t \in Tasks |-> <<>>]
    /\ sums = [t \in Tasks |-> <<0, <<>>>>]
    /\ output = <<>>

Res(class, vulns, secrets, misconfs) ==
    [Class |-> class, Vulnerabilities |-> vulns, Secrets |-> secrets,
     Misconfigurations |-> misconfs]

\* Three families of inputs: two tasks that each write one result of
\* vulnerabilities, one task that writes one result of any shape, and one
\* task that writes a report of two results.
WriteInit ==
    /\ tw \in [Severities : AllowLists]
    /\ once = [done |-> FALSE, m |-> "free"]
    /\ logged = 0
    /\ \/ /\ tw.Severities = <<3>>
          /\ \E c1, c2 \in {"os-pkgs", "custom"} :
             \E v1, v2 \in SeqsUpTo(PathKinds, MaxRows) :
                reports = [t \in Tasks |->
                             IF t = "w1" THEN <<Res(c1, v1, <<>>, <<>>)>>
                             ELSE <<Res(c2, v2, <<>>, <<>>)>>]
       \/ \E c \in Classes, v \in SeqsUpTo(PlainKinds, MaxRows),
             s \in SecretLists, m \in MisconfigurationLists :
                reports = [t \in Tasks |->
                             IF t = "w1" THEN <<Res(c, v, s, m)>> ELSE <<>>]
       \/ /\ tw.Severities = <<3>>
          /\ \E c1, c2 \in Classes : \E v1, v2 \in SeqsUpTo(PathKinds, 1) :
                reports = [t \in Tasks |->
                             IF t = "w1"
                             THEN <<Res(c1, v1, <<>>, <<>>), Res(c2, v2, <<>>, <<>>)>>
                             ELSE <<>>]
    /\ wpc = [t \in Tasks |-> "Write"]
    /\ ri = [t \in Tasks |-> 1]
    /\ wSeverityCount = [t \in Tasks |-> EmptyMap]
    /\ rowi = [t \in Tasks |-> 1]
    /\ rows = [t \in Tasks |-> <<>>]
    /\ sums = [t \in Tasks |-> <<0, <<>>>>]
    /\ output = <<>>

\* the loop of Write: the next result, custom resources skipped
WriteLoop(t) ==
    /\ wpc[t] = "Write"
    /\ IF ri[t] > Len(reports[t])
       THEN wpc' = [wpc EXCEPT ![t] = "done"] /\ UNCHANGED ri
       ELSE IF Current(t).Class = "custom"
            THEN ri' = [ri EXCEPT ![t] = @ + 1] /\ UNCHANGED wpc
            ELSE wpc' = [wpc EXCEPT ![t] = "write"] /\ UNCHANGED ri
    /\ UNCHANGED <<tw, once, logged, reports, wSeverityCount, rowi, rows, sums, output,
                   k8sVars, treeVars, scanVars, cacheVars>>

\* write up to the switch: a new table, the severity counts
CountSeverities(t) ==
    /\ wpc[t] = "write"
    /\ wSeverityCount' = [wSeverityCount EXCEPT ![t] = countSeverities(Current(t))]
    /\ rows' = [rows EXCEPT ![t] = <<>>]
    /\ rowi' = [rowi EXCEPT ![t] = 1]
    /\ wpc' = [wpc EXCEPT ![t] =
                 IF Len(Current(t).Vulnerabilities) > 0 THEN "vulnerabilities"
                 ELSE IF Len(Current(t).Secrets) > 0 THEN "secrets"
                 ELSE "summary"]
    /\ UNCHANGED <<tw, once, logged, reports, ri, sums, output,
                   k8sVars, treeVars, scanVars, cacheVars>>

\* the loop of setVulnerabilityRows: a vulnerability without a path gets its
\* row, one with a path goes through ShowMessageOnce.Do first
VulnerabilityRow(t) ==
    /\ wpc[t] = "vulnerabilities"
    /\ IF rowi[t] > Len(Current(t).Vulnerabilities)
       THEN /\ wpc' = [wpc EXCEPT ![t] = "summary"]
            /\ UNCHANGED <<rows, rowi>>
       ELSE LET v == Current(t).Vulnerabilities[rowi[t]]
            IN  IF v.PkgPath # ""
                THEN /\ wpc' = [wpc EXCEPT ![t] = "Do"]
                     /\ UNCHANGED <<rows, rowi>>
                ELSE /\ rows' = [rows EXCEPT ![t] = Append(@, vulnerabilityRow(v))]
                     /\ rowi' = [rowi EXCEPT ![t] = @ + 1]
                     /\ UNCHANGED wpc
    /\ UNCHANGED <<tw, once, logged, reports, ri, wSeverityCount, sums, output,
                   k8sVars, treeVars, scanVars, cacheVars>>

\* Once.Do: the load of done on the fast path
OnceLoad(t) ==
    /\ wpc[t] = "Do"
    /\ wpc' = [wpc EXCEPT ![t] = IF once.done THEN "AddRow" ELSE "Lock"]
    /\ UNCHANGED <<tw, once, logged, reports, ri, wSeverityCount, rowi, rows, sums,
                   output, k8sVars, treeVars, scanVars, cacheVars>>

\* Once.doSlow: the mutex is taken
OnceLock(t) ==
    /\ wpc[t] = "Lock"
    /\ mutexFree(once)
    /\ once' = [once EXCEPT !.m = t]
    /\ wpc' = [wpc EXCEPT ![t] = "doSlow"]
    /\ UNCHANGED <<tw, logged, reports, ri, wSeverityCount, rowi, rows, sums, output,
                   k8sVars, treeVars, scanVars, cacheVars>>

\* Once.doSlow: done is read again under the mutex
OnceCheck(t) ==
    /\ wpc[t] = "doSlow"
    /\ IF once.done
       THEN /\ once' = [once EXCEPT !.m = "free"]
            /\ wpc' = [wpc EXCEPT ![t] = "AddRow"]
       ELSE /\ wpc' = [wpc EXCEPT ![t] = "f"]
            /\ UNCHANGED once
    /\ UNCHANGED <<tw, logged, reports, ri, wSeverityCount, rowi, rows, sums, output,
                   k8sVars, treeVars, scanVars, cacheVars>>

\* Once.doSlow: the function logs the message, done is stored, the mutex
\* is released
OnceRun(t) ==
    /\ wpc[t] = "f"
    /\ logged' = logged + 1
    /\ once' = [done |-> TRUE, m |-> "free"]
    /\ wpc' = [wpc EXCEPT ![t] = "AddRow"]
    /\ UNCHANGED <<tw, reports, ri, wSeverityCount, rowi, rows, sums, output,
                   k8sVars, treeVars, scanVars, cacheVars>>

\* the row of a vulnerability with a path, after Do has returned
AddRow(t) ==
    /\ wpc[t] = "AddRow"
    /\ rows' = [rows EXCEPT ![t] =
                  Append(@, vulnerabilityRow(Current(t).Vulnerabilities[rowi[t]]))]
    /\ rowi' = [rowi EXCEPT ![t] = @ + 1]
    /\ wpc' = [wpc EXCEPT ![t] = "vulnerabilities"]
    /\ UNCHANGED <<tw, once, logged, reports, ri, wSeverityCount, sums, output,
                   k8sVars, treeVars, scanVars, cacheVars>>

\* writeSecrets: one row per secret
SecretRows(t) ==
    /\ wpc[t] = "secrets"
    /\ rows' = [rows EXCEPT ![t] =
                  [i \in DOMAIN Current(t).Secrets |-> secretRow(Current(t).Secrets[i])]]
    /\ wpc' = [wpc EXCEPT ![t] = "summary"]
    /\ UNCHANGED <<tw, once, logged, reports, ri, wSeverityCount, rowi, sums, output,
                   k8sVars, treeVars, scanVars, cacheVars>>

\* total and summaries, then the returns that hide an empty table
Summarise(t) ==
    /\ wpc[t] = "summary"
    /\ sums' = [sums EXCEPT ![t] =
                  summary(severityStrings(tw.Severities), wSeverityCount[t])]
    /\ IF hidden(Current(t))
       THEN /\ ri' = [ri EXCEPT ![t] = @ + 1]
            /\ wpc' = [wpc EXCEPT ![t] = "Write"]
       ELSE /\ wpc' = [wpc EXCEPT ![t] = "header"]
            /\ UNCHANGED ri
    /\ UNCHANGED <<tw, once, logged, reports, wSeverityCount, rowi, rows, output,
                   k8sVars, treeVars, scanVars, cacheVars>>

\* the target line and its underline
PrintHeader(t) ==
    /\ wpc[t] = "header"
    /\ output' = Append(output, [task |-> t, kind |-> "header", result |-> ri[t]])
    /\ wpc' = [wpc EXCEPT ![t] = "total"]
    /\ UNCHANGED <<tw, once, logged, reports, ri, wSeverityCount, rowi, rows, sums,
                   k8sVars, treeVars, scanVars, cacheVars>>

\* the Failures or Total line, the Tests line before it for class config
PrintSummary(t) ==
    /\ wpc[t] = "total"
    /\ output' = output
                   \o (IF Current(t).Class = "config"
                       THEN <<[task |-> t, kind |-> "tests", result |-> ri[t]]>>
                       ELSE <<>>)
                   \o <<[task |-> t, kind |-> "summary", result |-> ri[t],
                         label |-> IF Current(t).Class = "config"
                                   THEN "Failures" ELSE "Total",
                         total |-> sums[t][1], summaries |-> sums[t][2]]>>
    /\ wpc' = [wpc EXCEPT ![t] = "Render"]
    /\ UNCHANGED <<tw, once, logged, reports, ri, wSeverityCount, rowi, rows, sums,
                   k8sVars, treeVars, scanVars, cacheVars>>

\* the table is rendered and write returns
Render(t) ==
    /\ wpc[t] = "Render"
    /\ output' = Append(output,
                        [task |-> t, kind |-> "table", result |-> ri[t],
                         rows |-> rows[t]])
    /\ ri' = [ri EXCEPT ![t] = @ + 1]
    /\ wpc' = [wpc EXCEPT ![t] = "Write"]
    /\ UNCHANGED <<tw, once, logged, reports, wSeverityCount, rowi, rows, sums,
                   k8sVars, treeVars, scanVars, cacheVars>>

WriteNext ==
    \E t \in Tasks :
       \/ WriteLoop(t) \/ CountSeverities(t) \/ VulnerabilityRow(t)
       \/ OnceLoad(t) \/ OnceLock(t) \/ OnceCheck(t) \/ OnceRun(t) \/ AddRow(t)
       \/ SecretRows(t) \/ Summarise(t)
       \/ PrintHeader(t) \/ PrintSummary(t) \/ Render(t)

(***************************************************************************)
(* result cache: PutBlob and MissingBlobs over a backend that can fail     *)
(***************************************************************************)
\* PutBlob and MissingBlobs calls of one run
MaxCalls == 3

BlobKeys == {"k1", "k2"}

CacheEntries == {"e1", "e2"}

ArtifactKeys == {"a1"}

\* the units of work that call the cache concurrently
Callers == {"c1", "c2"}

\* a caller that has made no call yet
Returned == [op |-> "none", done |-> TRUE]

putBlob_DropOthers(s, key, entry) == Put(EmptyMap, key, entry)

putBlob_KeepFirst(s, key, entry) == IF key \in DOMAIN s THEN s ELSE Put(s, key, entry)

\* the store after PutBlob(key, entry) reached the backend
putBlob(s, key, entry) == Put(s, key, entry)

missingBlobs_FailClosed(s, up, candidateKeys) ==
    IF up THEN candidateKeys \ DOMAIN s ELSE {}

\* the subset MissingBlobs returns: the candidates not present, every
\* candidate when the backend cannot be reached
missingBlobs(s, up, candidateKeys) ==
    IF up THEN candidateKeys \ DOMAIN s ELSE candidateKeys

CacheIdle ==
    /\ store = EmptyMap
    /\ reachable = TRUE
    /\ calls = <<>>
    /\ cacheRet = NoCall
    /\ warnings = 0
    /\ inflight = [c \in Callers |-> Returned]

CacheInit ==
    /\ store = EmptyMap
    /\ reachable \in BOOLEAN
    /\ calls = <<>>
    /\ cacheRet = NoCall
    /\ warnings = 0
    /\ inflight = [c \in Callers |-> Returned]

\* PutBlob(key, entry): the entry is stored; with the backend unreachable
\* nothing is stored, a warning is logged and no error is returned
PutBlob(key, entry) ==
    /\ Len(calls) < MaxCalls
    /\ store' = IF reachable THEN putBlob(store, key, entry) ELSE store
    /\ warnings' = IF reachable THEN warnings ELSE warnings + 1
    /\ calls' = Append(calls, [op |-> "PutBlob", key |-> key, entry |-> entry,
                               reachable |-> reachable])
    /\ cacheRet' = [op |-> "PutBlob", key |-> key, entry |-> entry,
                    reachable |-> reachable, err |-> Nil]
    /\ UNCHANGED <<reachable, inflight, k8sVars, treeVars, scanVars, writeVars>>

\* MissingBlobs(artifactKey, candidateKeys)
MissingBlobs(artifactKey, candidateKeys) ==
    /\ Len(calls) < MaxCalls
    /\ warnings' = IF reachable THEN warnings ELSE warnings + 1
    /\ calls' = Append(calls, [op |-> "MissingBlobs", reachable |-> reachable])
    /\ cacheRet' = [op |-> "MissingBlobs", artifactKey |-> artifactKey,
                    candidateKeys |-> candidateKeys,
                    missing |-> missingBlobs(store, reachable, candidateKeys),
                    reachable |-> reachable, err |-> Nil]
    /\ UNCHANGED <<store, reachable, inflight, k8sVars, treeVars, scanVars, writeVars>>

\* the backend becomes unreachable, or reachable again
BackendChange ==
    /\ Len(calls) < MaxCalls
    /\ reachable' = ~reachable
    /\ UNCHANGED <<store, calls, cacheRet, warnings, inflight, k8sVars, treeVars,
                   scanVars, writeVars>>

CacheNext ==
    \/ \E key \in BlobKeys, entry \in CacheEntries : PutBlob(key, entry)
    \/ \E artifactKey \in ArtifactKeys, candidateKeys \in SUBSET BlobKeys :
          MissingBlobs(artifactKey, candidateKeys)
    \/ BackendChange

\* Concurrent callers: a call begins, acts on the store and ends, and the
\* steps of different callers interleave. PutBlob writes its key in one
\* step; MissingBlobs looks its candidate keys up one at a time.
CacheCallsInit ==
    /\ store = EmptyMap
    /\ reachable = TRUE
    /\ calls = <<>>
    /\ cacheRet = NoCall
    /\ warnings = 0
    /\ inflight = [c \in Callers |-> Returned]

\* the caller has no call in progress
Free(c) == inflight[c].done

\* the calls begun so far: those ended and those in progress
Begun == Len(calls) + Cardinality({c \in Callers : ~Free(c)})

BeginPutBlob(c, key, entry) ==
    /\ Free(c)
    /\ Begun < MaxCalls
    /\ inflight' = [inflight EXCEPT ![c] =
                      [op |-> "PutBlob", key |-> key, entry |-> entry, done |-> FALSE]]
    /\ UNCHANGED <<store, reachable, calls, cacheRet, warnings, k8sVars, treeVars,
                   scanVars, writeVars>>

\* the write of PutBlob, and its return
StoreBlob(c) ==
    /\ inflight[c].op = "PutBlob"
    /\ ~inflight[c].done
    /\ store' = putBlob(store, inflight[c].key, inflight[c].entry)
    /\ calls' = Append(calls, [op |-> "PutBlob", key |-> inflight[c].key,
                               entry |-> inflight[c].entry, reachable |-> TRUE])
    /\ inflight' = [inflight EXCEPT ![c].done = TRUE]
    /\ UNCHANGED <<reachable, cacheRet, warnings, k8sVars, treeVars, scanVars,
                   writeVars>>

\* MissingBlobs begins; before holds the keys stored when it was called
BeginMissingBlobs(c, artifactKey, candidateKeys) ==
    /\ Free(c)
    /\ Begun < MaxCalls
    /\ inflight' = [inflight EXCEPT ![c] =
                      [op |-> "MissingBlobs", artifactKey |-> artifactKey,
                       candidateKeys |-> candidateKeys, before |-> DOMAIN store,
                       todo |-> candidateKeys, missing |-> {}, done |-> FALSE]]
    /\ UNCHANGED <<store, reachable, calls, cacheRet, warnings, k8sVars, treeVars,
                   scanVars, writeVars>>

\* MissingBlobs looks one candidate key up
CheckBlob(c) ==
    /\ inflight[c].op = "MissingBlobs"
    /\ ~inflight[c].done
    /\ \E key \in inflight[c].todo :
          inflight' = [inflight EXCEPT
                         ![c].todo = @ \ {key},
                         ![c].missing = @ \cup missingBlobs(store, reachable, {key})]
    /\ UNCHANGED <<store, reachable, calls, cacheRet, warnings, k8sVars, treeVars,
                   scanVars, writeVars>>

\* MissingBlobs returns the keys it found missing
ReturnMissingBlobs(c) ==
    /\ inflight[c].op = "MissingBlobs"
    /\ ~inflight[c].done
    /\ inflight[c].todo = {}
    /\ calls' = Append(calls, [op |-> "MissingBlobs", reachable |-> TRUE])
    /\ inflight' = [inflight EXCEPT ![c].done = TRUE]
    /\ UNCHANGED <<store, reachable, cacheRet, warnings, k8sVars, treeVars, scanVars,
                   writeVars>>

CacheCallsNext ==
    \E c \in Callers :
       \/ \E key \in BlobKeys, entry \in CacheEntries : BeginPutBlob(c, key, entry)
       \/ StoreBlob(c)
       \/ \E artifactKey \in ArtifactKeys, candidateKeys \in SUBSET BlobKeys :
             BeginMissingBlobs(c, artifactKey, candidateKeys)
       \/ CheckBlob(c)
       \/ ReturnMissingBlobs(c)

(***************************************************************************)
(* Specifications: one per component, the others at rest                   *)
(***************************************************************************)
InitK8s == K8sInit /\ TreeIdle /\ ScanIdle /\ WriteIdle /\ CacheIdle

SpecK8s == InitK8s /\ [][K8sNext]_vars

InitTree == TreeInit /\ K8sIdle /\ ScanIdle /\ WriteIdle /\ CacheIdle

SpecTree == InitTree /\ [][TreeNext]_vars

InitScan == ScanInit /\ K8sIdle /\ TreeIdle /\ WriteIdle /\ CacheIdle

SpecScan == InitScan /\ [][ScanNext]_vars

InitWrite == WriteInit /\ K8sIdle /\ TreeIdle /\ ScanIdle /\ CacheIdle

SpecWrite == InitWrite /\ [][WriteNext]_vars

InitCache == CacheInit /\ K8sIdle /\ TreeIdle /\ ScanIdle /\ WriteIdle

SpecCache == InitCache /\ [][CacheNext]_vars

InitSlices == SlicesInit /\ TreeIdle /\ ScanIdle /\ WriteIdle /\ CacheIdle

SpecSlices == InitSlices /\ [][SlicesNext]_vars

InitCreate == CreateInit /\ TreeIdle /\ ScanIdle /\ WriteIdle /\ CacheIdle

SpecCreate == InitCreate /\ [][CreateNext]_vars

InitCacheCalls == CacheCallsInit /\ K8sIdle /\ TreeIdle /\ ScanIdle /\ WriteIdle

SpecCacheCalls == InitCacheCalls /\ [][CacheCallsNext]_vars

\* C1: the walk over the reverse graph ends for every graph, cyclic ones
\* included: it never nests deeper than there are package IDs, and no package
\* ID is twice on one traced path.
C1_WalkEndsNoNodeTwiceOnPath ==
    /\ tpc # "overflow"
    /\ \A n \in DOMAIN tree :
          \A i, j \in DOMAIN tree[n].path :
             i # j => tree[n].path[i] # tree[n].path[j]

(***************************************************************************)
(* Aggregator claims, checked under SpecK8s                                *)
(***************************************************************************)
Inputs == report.Misconfigurations \o report.Vulnerabilities

Consolidated == ret.op = "consolidate"

\* the indices of the entries of Findings filed under key k
EntriesOf(k) == {i \in DOMAIN ret.Findings : fullname(ret.Findings[i]) = k}

\* the {namespace, kind, name} triple with the letter case folded
FoldTriple(r) == <<ToLower(r.Namespace), ToLower(r.Kind), ToLower(r.Name)>>

\* the elements of list whose key is k, in list order
RECURSIVE WithKey(_, _)
WithKey(list, k) ==
    IF list = <<>> THEN <<>>
    ELSE IF fullname(Head(list)) = k
         THEN <<Head(list)>> \o WithKey(Tail(list), k)
         ELSE WithKey(Tail(list), k)

ResultsOf(list) == Concat([i \in DOMAIN list |-> list[i].Results])

\* C2: every Result of every input Resource is in the Results of the entry
\* filed under that Resource's key, and two Resources of the same origin that
\* share a key leave an entry holding both Results lists, one after the other.
C2_NoResultLost ==
    Consolidated =>
        /\ \A x \in DOMAIN Inputs :
              \A n \in DOMAIN Inputs[x].Results :
                 \E i \in EntriesOf(fullname(Inputs[x])) :
                    Inputs[x].Results[n] \in Range(ret.Findings[i].Results)
        /\ \A list \in {report.Misconfigurations, report.Vulnerabilities} :
              \A x, y \in DOMAIN list :
                 (x < y /\ fullname(list[x]) = fullname(list[y])
                        /\ Len(WithKey(Inputs, fullname(list[x]))) = 2)
                 => \E i \in EntriesOf(fullname(list[x])) :
                       ret.Findings[i].Results = list[x].Results \o list[y].Results

\* C3: a key that one misconfiguration Resource and some vulnerability
\* Resource share has exactly one entry, whose Results are the
\* misconfiguration's Results followed by the vulnerability Results, each in
\* its own order.
C3_MisconfThenVuln ==
    Consolidated =>
        \A x \in DOMAIN report.Misconfigurations :
           LET m == report.Misconfigurations[x]
               k == fullname(m)
               vs == WithKey(report.Vulnerabilities, k)
           IN  (Len(WithKey(report.Misconfigurations, k)) = 1 /\ vs # <<>>)
               => /\ Cardinality(EntriesOf(k)) = 1
                  /\ \A i \in EntriesOf(k) :
                        ret.Findings[i].Results = m.Results \o ResultsOf(vs)

C3_Witness ==
    /\ Consolidated
    /\ Len(report.Misconfigurations) = 1
    /\ Len(report.Vulnerabilities) = 1
    /\ fullname(report.Misconfigurations[1]) = fullname(report.Vulnerabilities[1])
    /\ report.Misconfigurations[1].Results # <<>>
    /\ report.Vulnerabilities[1].Results # <<>>
    /\ report.Misconfigurations[1].Results # report.Vulnerabilities[1].Results
    /\ Len(ret.Findings) = 1
    /\ ret.Findings[1].Results =
          report.Misconfigurations[1].Results \o report.Vulnerabilities[1].Results

\* C4: two input Resources are filed under the same entry only if their
\* {namespace, kind, name} triples are equal ignoring case, and Findings has
\* as many entries as the inputs have distinct case-folded triples.
C4_DistinctIdentitiesApart ==
    Consolidated =>
        /\ \A x, y \in DOMAIN Inputs :
              (\E i \in DOMAIN ret.Findings :
                  /\ fullname(ret.Findings[i]) = fullname(Inputs[x])
                  /\ fullname(ret.Findings[i]) = fullname(Inputs[y]))
              => FoldTriple(Inputs[x]) = FoldTriple(Inputs[y])
        /\ Len(ret.Findings) = Cardinality({FoldTriple(Inputs[x]) : x \in DOMAIN Inputs})

\* C5: Resources whose namespace, kind and name differ only in letter case
\* have the same key, the lower-cased namespace/kind/name, and that key has a
\* single entry.
C5_CaseInsensitiveIdentity ==
    Consolidated =>
        \A x, y \in DOMAIN Inputs :
           FoldTriple(Inputs[x]) = FoldTriple(Inputs[y])
           => /\ fullname(Inputs[x]) = fullname(Inputs[y])
              /\ fullname(Inputs[x]) =
                    Sprintf3(ToLower(Inputs[x].Namespace), ToLower(Inputs[x].Kind),
                             ToLower(Inputs[x].Name))
              /\ Cardinality(EntriesOf(fullname(Inputs[x]))) = 1

C5_Witness ==
    /\ Consolidated
    /\ \E x, y \in DOMAIN Inputs :
          /\ x < y
          /\ FoldTriple(Inputs[x]) = FoldTriple(Inputs[y])
          /\ Inputs[x].Name # Inputs[y].Name
          /\ Inputs[x].Kind # Inputs[y].Kind
    /\ Len(ret.Findings) = 1

\* the Resource that first takes the slot of key k: the last misconfiguration
\* Resource with that key, or else the first vulnerability Resource with it
Holder(k) ==
    LET ms == WithKey(report.Misconfigurations, k)
    IN  IF ms # <<>> THEN ms[Len(ms)] ELSE Head(WithKey(report.Vulnerabilities, k))

\* C6: an entry that vulnerability Resources were merged into keeps the
\* Namespace, Kind, Name and Error of the Resource that was in the index
\* before them; the Error of an incoming Resource is dropped.
C6_ExistingIdentityAndErrorKept ==
    Consolidated =>
        \A i \in DOMAIN ret.Findings :
           LET f == ret.Findings[i]
               h == Holder(fullname(f))
           IN  /\ f.Namespace = h.Namespace
               /\ f.Kind = h.Kind
               /\ f.Name = h.Name
               /\ f.Error = h.Error

C6_Witness ==
    /\ Consolidated
    /\ Len(Inputs) = 2
    /\ Len(report.Vulnerabilities) >= 1
    /\ fullname(Inputs[1]) = fullname(Inputs[2])
    /\ Inputs[1].Name # Inputs[2].Name
    /\ Inputs[1].Error = ""
    /\ Inputs[2].Error # ""
    /\ Len(ret.Findings) = 1
    /\ ret.Findings[1].Error = ""
    /\ ret.Findings[1].Name = Inputs[1].Name

\* C7: Failed returns true exactly when some Resource of Vulnerabilities or
\* Misconfigurations has Results that fail.
C7_FailedIffSomeResourceFails ==
    ret.op = "Failed" =>
        (ret.val <=> \E x \in DOMAIN Inputs : ResultsFailed(Inputs[x].Results))

C7_Witness ==
    /\ ret.op = "Failed"
    /\ ret.val
    /\ Len(Inputs) >= 2
    /\ ~ResultsFailed(Inputs[1].Results)
    /\ \E list \in {report.Misconfigurations, report.Vulnerabilities} :
          /\ Len(list) >= 2
          /\ ~ResultsFailed(list[1].Results)
          /\ ResultsFailed(list[2].Results)

(***************************************************************************)
(* Dispatcher claims, checked under SpecScan                               *)
(***************************************************************************)
\* the transport of t fails transiently some times and then succeeds
AllTransient(t) == \A i \in DOMAIN plan[t] : plan[t][i] = "transport"

\* the attempts the transport of t needs to succeed
Needed(t) == Len(plan[t]) + 1

\* the places of the application and decode errors in the transport's answers
Fatal(t) == {i \in DOMAIN plan[t] : plan[t][i] # "transport"}

FirstFatal(t) == CHOOSE i \in Fatal(t) : \A j \in Fatal(t) : i <= j

\* C8: with a transport that fails transiently N-1 times and then succeeds,
\* Scan returns the server's results when the budget is at least N and the
\* wrapped transport error when it is less; it never sends more requests
\* than the budget.
C8_RetryWithinBudget ==
    \A t \in Targets :
       /\ attempts[t] <= retryBudget
       /\ (pc[t] = "done" /\ AllTransient(t)) =>
             IF retryBudget >= Needed(t)
             THEN /\ scanRet[t].err = Nil
                  /\ scanRet[t].results = ConvertFromRPC(Response(t).Results)
                  /\ scanRet[t].os = ConvertFromRPC(Response(t).Os)
                  /\ attempts[t] = Needed(t)
             ELSE /\ scanRet[t].err.kind = "wrapped"
                  /\ scanRet[t].err.cause = [kind |-> "transport"]
                  /\ scanRet[t].results = Nil
                  /\ attempts[t] = retryBudget

C8_Witness ==
    /\ retryBudget = 2
    /\ plan["t1"] = <<"transport">>
    /\ plan["t2"] = <<"transport", "transport">>
    /\ pc["t1"] = "done" /\ pc["t2"] = "done"
    /\ attempts["t1"] = 2 /\ scanRet["t1"].err = Nil
    /\ attempts["t2"] = 2 /\ scanRet["t2"].err # Nil

\* C9: after the first application or decode error no further request is
\* sent, and Scan returns that error, wrapped, with no results.
C9_FatalErrorNotRetried ==
    \A t \in Targets :
       Fatal(t) # {} =>
          /\ attempts[t] <= FirstFatal(t)
          /\ attempts[t] = FirstFatal(t) =>
                /\ pc[t] \in {"return", "done"}
                /\ err[t] = [kind |-> plan[t][FirstFatal(t)]]
                /\ pc[t] = "done" =>
                      /\ scanRet[t].err.kind = "wrapped"
                      /\ scanRet[t].err.cause = [kind |-> plan[t][FirstFatal(t)]]
                      /\ scanRet[t].results = Nil
                      /\ scanRet[t].os = Nil

C9_Witness ==
    /\ retryBudget = 3
    /\ plan["t1"] = <<"transport", "application">>
    /\ plan["t2"] = <<"decode", "transport">>
    /\ pc["t1"] = "done" /\ pc["t2"] = "done"
    /\ attempts["t1"] = 2 /\ scanRet["t1"].err # Nil
    /\ attempts["t2"] = 1 /\ scanRet["t2"].err # Nil

\* C10: once the caller's signal has fired no further request is sent, and
\* a call that was in its retry loop leaves it with a cancellation error.
C10_CancelAbortsDispatch ==
    [][callerCancelled =>
          \A t \in Targets :
             /\ attempts'[t] = attempts[t]
             /\ (pc[t] = "retry" /\ pc'[t] = "return") => err'[t].kind = "cancelled"]_vars

\* C11: a call that gives up returns no results and no OS metadata, and an
\* error that wraps the error Retry ended with and tells the failing target
\* apart from any other target that failed.
C11_GiveUpErrorNamesTarget ==
    \A t \in Targets :
       (pc[t] = "done" /\ err[t] # Nil) =>
          /\ scanRet[t].results = Nil
          /\ scanRet[t].os = Nil
          /\ scanRet[t].err # Nil
          /\ scanRet[t].err.cause = err[t]
          /\ \A u \in Targets \ {t} :
                (pc[u] = "done" /\ err[u] # Nil) => scanRet[u].err # scanRet[t].err

(***************************************************************************)
(* Claims about the table writer                                           *)
(***************************************************************************)
\* the vulnerabilities Write renders: those of results that are not custom
\* resources
RenderedVulnerabilities ==
    UNION { UNION { Range(reports[t][i].Vulnerabilities) :
                    i \in {j \in DOMAIN reports[t] : reports[t][j].Class # "custom"} } :
            t \in Tasks }

SomeRenderedPath == \E v \in RenderedVulnerabilities : v.PkgPath # ""

\* C12: tasks that write concurrently and share one ShowMessageOnce log the
\* file name message at most once; a row that shows a file name is added
\* only after the message, so the message is logged exactly once when a
\* rendered vulnerability has a package path, and never when none has.
C12_MessageOnce ==
    /\ logged <= 1
    /\ logged = 1 => SomeRenderedPath
    /\ \A t \in Tasks :
          (\E i \in DOMAIN rows[t] : rows[t][i].fileName) => logged = 1
    /\ ((\A t \in Tasks : wpc[t] = "done") /\ SomeRenderedPath) => logged = 1

\* both tasks came to Do with done still unset, one of them ran the function
C12_Witness ==
    /\ \A t \in Tasks :
          /\ wpc[t] = "done"
          /\ \E i \in DOMAIN reports[t] :
                /\ reports[t][i].Class # "custom"
                /\ \E v \in Range(reports[t][i].Vulnerabilities) : v.PkgPath # ""
    /\ logged = 1

\* the tasks whose write has computed total and summaries for Current
Summarised == {t \in Tasks : wpc[t] \in {"header", "total", "Render"}}

RECURSIVE SumOver(_, _)
SumOver(S, m) ==
    IF S = {} THEN 0
    ELSE LET x == CHOOSE y \in S : TRUE
         IN  Lookup(m, x, 0) + SumOver(S \ {x}, m)

\* C13: the summary lists exactly the severities of the allow-list, each
\* with its count of the raw map (0 when the map has none); the total is the
\* sum of the counts of the allow-listed severities; the raw map still
\* holds every count.
C13_SummaryOfAllowList ==
    \A t \in Summarised :
       LET allow == Range(severityStrings(tw.Severities))
           total == sums[t][1]
           summaries == sums[t][2]
       IN  /\ {summaries[i][1] : i \in DOMAIN summaries} = allow
           /\ Len(summaries) = Cardinality(allow)
           /\ \A i \in DOMAIN summaries :
                 summaries[i][2] = Lookup(wSeverityCount[t], summaries[i][1], 0)
           /\ total = SumOver(allow, wSeverityCount[t])
           /\ wSeverityCount[t] = countSeverities(Current(t))

\* a count outside the allow-list is left out of the total, and a severity
\* of the allow-list without findings is listed with 0
C13_Witness ==
    \E t \in Summarised :
       /\ tw.Severities = <<3, 4>>
       /\ Lookup(wSeverityCount[t], "LOW", 0) = 2
       /\ Lookup(wSeverityCount[t], "HIGH", 0) = 1
       /\ sums[t] = <<1, << <<"HIGH", 1>>, <<"CRITICAL", 0>> >> >>

Rank(severity) ==
    CASE severity = "UNKNOWN" -> 0
      [] severity = "LOW" -> 1
      [] severity = "MEDIUM" -> 2
      [] severity = "HIGH" -> 3
      [] severity = "CRITICAL" -> 4

\* C14: the summary lists the severities in the order UNKNOWN, LOW, MEDIUM,
\* HIGH, CRITICAL whatever the order of the allow-list, and an allow-list
\* with the same entries in another order or repeated gives the same
\* summary and total.
C14_SummaryOrderFixed ==
    \A t \in Summarised :
       LET summaries == sums[t][2]
       IN  /\ \A i, j \in DOMAIN summaries :
                 i < j => Rank(summaries[i][1]) < Rank(summaries[j][1])
           /\ \A other \in AllowLists :
                 Range(other) = Range(tw.Severities) =>
                    summary(severityStrings(other), wSeverityCount[t]) = sums[t]

\* the allow-list names CRITICAL before LOW, the summary lists LOW first
C14_Witness ==
    \E t \in Summarised :
       /\ tw.Severities = <<4, 1>>
       /\ sums[t][2] = << <<"LOW", 1>>, <<"CRITICAL", 1>> >>

Having(findings, severity) ==
    Cardinality({i \in DOMAIN findings : findings[i].Severity = severity})

\* C15: the count of a severity is the number of vulnerabilities, plus the
\* number of secrets, plus the number of misconfigurations with failure
\* status, of that severity; other misconfigurations are not counted.
C15_CountsThreeSources ==
    \A t \in Tasks :
       wpc[t] \notin {"Write", "write", "done"} =>
          LET r == Current(t)
              failures == SelectSeq(r.Misconfigurations,
                                    LAMBDA m : m.Status = StatusFailure)
              Count(severity) == Having(r.Vulnerabilities, severity)
                                 + Having(r.Secrets, severity)
                                 + Having(failures, severity)
          IN  /\ \A severity \in Range(SeverityNames) :
                    Lookup(wSeverityCount[t], severity, 0) = Count(severity)
              /\ DOMAIN wSeverityCount[t] =
                    {severity \in Range(SeverityNames) : Count(severity) > 0}

\* HIGH is counted from all three sources; the misconfiguration that passed
\* is not counted for LOW
C15_Witness ==
    \E t \in Tasks :
       /\ wpc[t] = "summary"
       /\ \E i \in DOMAIN Current(t).Misconfigurations :
             Current(t).Misconfigurations[i] = [Status |-> "PASS", Severity |-> "LOW"]
       /\ Len(Current(t).Vulnerabilities) = 1
       /\ Len(Current(t).Secrets) = 1
       /\ wSeverityCount[t] = Put(Put(EmptyMap, "HIGH", 3), "LOW", 1)

(***************************************************************************)
(* Claims about the dependency tree                                        *)
(***************************************************************************)
\* the IDs of the packages that list q in DependsOn
Dependents(q) ==
    {result.Packages[i].ID :
        i \in {j \in DOMAIN result.Packages : q \in Range(result.Packages[j].DependsOn)}}

\* C16: reverseDeps lists P as a parent of Q exactly when a package with ID
\* P has Q in DependsOn, and lists each parent of Q once even when the edge
\* occurs several times.
C16_ReverseGraphExact ==
    (tpc \in {"loop", "returned"} /\ seen = {}) =>
       /\ DOMAIN parents = {q \in PkgIDs : Dependents(q) # {}}
       /\ \A q \in DOMAIN parents :
             /\ Range(parents[q]) = Dependents(q)
             /\ Len(parents[q]) = Cardinality(Dependents(q))

\* A lists B twice and C lists B once: B has the parents A and C, each once
C16_Witness ==
    /\ tpc = "loop"
    /\ seen = {}
    /\ result.Packages[1].DependsOn = <<"B", "B">>
    /\ result.Packages[3].DependsOn = <<"B">>
    /\ parents = Put(EmptyMap, "B", <<"A", "C">>)

\* s follows parent edges of the reverse graph from its first package on
IsChain(s) ==
    \A i \in 1..(Len(s) - 1) : s[i + 1] \in Range(Lookup(parents, s[i], <<>>))

Chains(n) == {s \in [1..n -> PkgIDs] : IsChain(s)}

\* no package is its own ancestor: no chain is longer than the packages
Acyclic == Chains(Cardinality(PkgIDs) + 1) = {}

ChainsFrom(pkgID) ==
    {s \in UNION {Chains(n) : n \in 1..Cardinality(PkgIDs)} : s[1] = pkgID}

\* C17: over an acyclic reverse graph the walk ends and the tree under a
\* vulnerable package holds one node for every ancestor chain that starts
\* at it, so one root-to-leaf path per complete chain; a package reached
\* over two paths stands under both.
C17_OnePathPerAncestorChain ==
    (tpc \in {"overflow", "printed"} /\ Acyclic) =>
       /\ tpc = "printed"
       /\ \A pkgID \in seen :
             LET nodes == {i \in DOMAIN tree : tree[i].path[1] = pkgID}
             IN  /\ {tree[i].path : i \in nodes} = ChainsFrom(pkgID)
                 /\ Cardinality(nodes) = Cardinality(ChainsFrom(pkgID))

\* C is a parent of A and of A's parent B: C stands under A and under A, B
C17_Witness ==
    /\ tpc = "printed"
    /\ Acyclic
    /\ parents = Put(Put(EmptyMap, "A", <<"B", "C">>), "B", <<"C">>)
    /\ [i \in DOMAIN tree |-> tree[i].path]
          = << <<"A">>, <<"A", "B">>, <<"A", "B", "C">>, <<"A", "C">> >>

TopLevel == SelectSeq(tree, LAMBDA n : Len(n.path) = 1)

\* the positions of result.Vulnerabilities that name a package for the first time
FirstOfPackage ==
    {i \in DOMAIN result.Vulnerabilities :
        \A j \in 1..(i - 1) :
           result.Vulnerabilities[j].PkgID # result.Vulnerabilities[i].PkgID}

VulnerabilitiesOf(pkgID) ==
    SelectSeq(result.Vulnerabilities, LAMBDA v : v.PkgID = pkgID)

\* C18: in the printed tree every vulnerable package ID is a top-level
\* branch exactly once, in the order of its first vulnerability, and the
\* label gives, for each severity it lists, the count over all
\* vulnerabilities of that package.
C18_TopLevelOncePerPackage ==
    tpc = "printed" =>
       /\ Len(TopLevel) = Cardinality(FirstOfPackage)
       /\ \A i \in FirstOfPackage :
             LET k == Cardinality({j \in FirstOfPackage : j <= i})
                 pkgID == result.Vulnerabilities[i].PkgID
                 label == TopLevel[k].summaries
             IN  /\ TopLevel[k].path = <<pkgID>>
                 /\ {label[n][1] : n \in DOMAIN label} = Range(twSeverities)
                 /\ \A n \in DOMAIN label :
                       label[n][2] = Having(VulnerabilitiesOf(pkgID), label[n][1])

\* two vulnerabilities of B: one top-level branch, both counted in its label
C18_Witness ==
    /\ tpc = "printed"
    /\ result.Vulnerabilities = <<[PkgID |-> "B", Severity |-> "LOW"],
                                  [PkgID |-> "B", Severity |-> "HIGH"]>>
    /\ Len(TopLevel) = 1
    /\ TopLevel[1].summaries = << <<"LOW", 1>>, <<"HIGH", 1>> >>

(***************************************************************************)
(* Claims about the cache                                                  *)
(***************************************************************************)
\* the PutBlob calls for key that reached the backend, by position
StoredPuts(key) ==
    {i \in DOMAIN calls :
        calls[i].op = "PutBlob" /\ calls[i].reachable /\ calls[i].key = key}

\* C19: a MissingBlobs call that reaches the backend returns exactly the
\* candidate keys no PutBlob has stored; a key that PutBlob stored one or
\* more times holds the entry of the last of these calls, so repeating
\* PutBlob(k, c) leaves c stored and k not missing.
C19_MissingIsCandidatesNotPut ==
    /\ (cacheRet.op = "MissingBlobs" /\ cacheRet.reachable) =>
          cacheRet.missing = {k \in cacheRet.candidateKeys : StoredPuts(k) = {}}
    /\ \A k \in BlobKeys :
          IF StoredPuts(k) = {} THEN k \notin DOMAIN store
          ELSE /\ k \in DOMAIN store
               /\ \E i \in StoredPuts(k) :
                     /\ \A j \in StoredPuts(k) : j <= i
                     /\ store[k] = calls[i].entry

\* PutBlob("k1", "e1") twice, then MissingBlobs of both keys
C19_Witness ==
    /\ Len(calls) = 3
    /\ \A i \in 1..2 :
          calls[i] = [op |-> "PutBlob", key |-> "k1", entry |-> "e1", reachable |-> TRUE]
    /\ cacheRet.op = "MissingBlobs"
    /\ cacheRet.candidateKeys = {"k1", "k2"}
    /\ cacheRet.missing = {"k2"}
    /\ store = Put(EmptyMap, "k1", "e1")

\* the calls made while the backend could not be reached
Unreached == {i \in DOMAIN calls : ~calls[i].reachable}

\* C20: with the backend unreachable MissingBlobs returns every candidate
\* key and no error, PutBlob returns no error and stores nothing, and each
\* such call logs a warning; calls go on afterwards.
C20_CacheFailsOpen ==
    /\ warnings = Cardinality(Unreached)
    /\ (cacheRet.op # "none" /\ ~cacheRet.reachable) =>
          /\ cacheRet.err = Nil
          /\ warnings >= 1
          /\ cacheRet.op = "MissingBlobs" => cacheRet.missing = cacheRet.candidateKeys
    /\ \A k \in DOMAIN store : StoredPuts(k) # {}

\* k1 is stored, the backend goes away, MissingBlobs still reports k1 missing
C20_Witness ==
    /\ "k1" \in DOMAIN store
    /\ cacheRet.op = "MissingBlobs"
    /\ ~cacheRet.reachable
    /\ cacheRet.missing = {"k1"}
    /\ cacheRet.err = Nil
    /\ warnings = 1

\* the entries the PutBlob calls for key have written so far
Written(key) ==
    {calls[i].entry : i \in {j \in DOMAIN calls :
                                calls[j].op = "PutBlob" /\ calls[j].key = key}}

\* C21: under every interleaving of the steps of concurrent calls, a key is
\* stored exactly when a PutBlob for it has written, with an entry that a
\* PutBlob for this key wrote (so the one content when all wrote the same),
\* whatever was done to other keys; and MissingBlobs answers each candidate
\* from that key alone: a key stored before the call is not missing, a key
\* not stored by its return is missing.
C21_DisjointKeysIndependent ==
    /\ \A k \in BlobKeys :
          IF Written(k) = {} THEN k \notin DOMAIN store
          ELSE k \in DOMAIN store /\ store[k] \in Written(k)
    /\ \A c \in Callers :
          (inflight[c].op = "MissingBlobs" /\ inflight[c].done) =>
             /\ inflight[c].missing \subseteq inflight[c].candidateKeys
             /\ inflight[c].missing \cap inflight[c].before = {}
             /\ (inflight[c].candidateKeys \ DOMAIN store) \subseteq inflight[c].missing

\* c2 wrote k2 while the MissingBlobs call of c1 was in progress: c1 still
\* finds k1 missing, and k2 holds what c2 wrote
C21_Witness ==
    /\ inflight["c1"].op = "MissingBlobs"
    /\ inflight["c1"].done
    /\ inflight["c1"].candidateKeys = {"k1", "k2"}
    /\ inflight["c1"].before = {}
    /\ inflight["c1"].missing = {"k1"}
    /\ inflight["c2"].op = "PutBlob"
    /\ inflight["c2"].key = "k2"
    /\ store = Put(EmptyMap, "k2", inflight["c2"].entry)

\* the call for u is in its retry loop after a failure, or has failed
InTrouble(u) ==
    \/ pc[u] = "retry" /\ attempts[u] >= 1
    \/ pc[u] \in {"return", "done"} /\ err[u] # Nil

\* C22: while the call for another target is retrying or has failed, the
\* call for t can always take its next step (nothing it waits for is held
\* by the other call), and when its own transport succeeds within the
\* budget it returns the server's results.
C22_SiblingNeverBlocked ==
    \A t \in Targets : \A u \in Targets \ {t} :
       InTrouble(u) =>
          /\ pc[t] # "done" => ENABLED (ScanStart(t) \/ Attempt(t) \/ ScanReturn(t))
          /\ (pc[t] = "done" /\ AllTransient(t) /\ Needed(t) <= retryBudget) =>
                /\ scanRet[t].err = Nil
                /\ scanRet[t].results = ConvertFromRPC(Response(t).Results)
                /\ scanRet[t].os = ConvertFromRPC(Response(t).Os)

\* t2 has used up the budget and failed before t1 sent anything; t1 then
\* needed the whole budget itself and succeeded
C22_Witness ==
    /\ retryBudget = 2
    /\ plan["t2"] = <<"transport", "transport">>
    /\ plan["t1"] = <<"transport">>
    /\ pc["t2"] = "done" /\ scanRet["t2"].err # Nil
    /\ sent["t2"] # <<>> /\ attempts["t2"] = 2
    /\ pc["t1"] = "done" /\ scanRet["t1"].err = Nil /\ attempts["t1"] = 2

\* C23: every request of a call carries the Scanner's custom headers, taken
\* from the context of that call, and no step of a call changes the
\* Scanner (its headers, its client) or the cache, whether the call
\* succeeds or fails.
C23_HeadersPerCallNothingElseChanged ==
    [][/\ scanner' = scanner
       /\ cacheVars' = cacheVars
       /\ \A t \in Targets :
             /\ Len(sent'[t]) = attempts'[t]
             /\ \A i \in DOMAIN sent'[t] :
                   /\ sent'[t][i].headers = scanner.customHeaders
                   /\ sent'[t][i].headers = ctx'[t].headers]_vars

\* a call that failed and a call that succeeded, each after two requests
C23_Witness ==
    /\ pc["t1"] = "done" /\ scanRet["t1"].err # Nil
    /\ pc["t2"] = "done" /\ scanRet["t2"].err = Nil
    /\ Len(sent["t1"]) = 2 /\ Len(sent["t2"]) = 2
    /\ \A i \in 1..2 : sent["t1"][i].headers = <<<<"Trivy-Token", "secret">>>>
    /\ scanner.customHeaders = <<<<"Trivy-Token", "secret">>>>

\* C24: every request of one call is the same request: the target, the
\* artifact key, the blob keys in the caller's order, and the caller's
\* VulnType, SecurityChecks and ListAllPackages.
C24_SameRequestEveryAttempt ==
    \A t \in Targets : \A i \in DOMAIN sent[t] :
       LET a == ScanArgs(t)
           q == sent[t][i].request
       IN  /\ q.Target = a.target
           /\ q.ArtifactId = a.artifactKey
           /\ q.BlobIds = a.blobKeys
           /\ q.Options.VulnType = a.options.VulnType
           /\ q.Options.SecurityChecks = a.options.SecurityChecks
           /\ q.Options.ListAllPackages = a.options.ListAllPackages
           /\ q = sent[t][1].request

\* three requests for t1, and the requests for t2 differ from them
C24_Witness ==
    /\ Len(sent["t1"]) = 3
    /\ Len(sent["t2"]) >= 1
    /\ sent["t1"][3].request.BlobIds = <<<<"blob", "t1", 1>>, <<"blob", "t1", 2>>>>
    /\ sent["t1"][3].request.Options.ListAllPackages
    /\ ~sent["t2"][1].request.Options.ListAllPackages

\* C25: every Resource of a batch carries its artifact's namespace, kind and
\* name and one result per result of its report, in the report's order (the
\* report's result, a kubernetes file's target being Kind/Name); its Error is
\* the message of its own scan's error, empty when the scan gave none,
\* whatever the other scans of the batch did; and after a failed scan the
\* next scan of the batch still gets its Resource.
C25_FailureKeptInItsResource ==
    /\ \A i \in DOMAIN batch :
          LET b == batch[i]
              r == b.resource
          IN /\ r.Namespace = b.artifact.Namespace
             /\ r.Kind = b.artifact.Kind
             /\ r.Name = b.artifact.Name
             /\ Len(r.Results) = Len(b.report.Results)
             /\ \A k \in DOMAIN b.report.Results :
                   /\ r.Results[k].Type = b.report.Results[k].Type
                   /\ r.Results[k].Class = b.report.Results[k].Class
                   /\ r.Results[k].Target =
                         IF b.report.Results[k].Type = "kubernetes"
                         THEN b.artifact.Kind \o <<"/">> \o b.artifact.Name
                         ELSE b.report.Results[k].Target
             /\ r.Error = IF b.err = Nil THEN "" ELSE b.err.msg
    /\ Len(batch) < MaxBatch =>
          ENABLED (\E artifact \in Artifacts, rs \in ScanResultLists, e \in ScanErrors :
                      CreateResource(artifact, [Results |-> rs], e))

\* a failed scan with three results, followed by a scan that gave no error
C25_Witness ==
    /\ Len(batch) = 2
    /\ batch[1].err # Nil /\ batch[1].resource.Error = "forbidden"
    /\ Len(batch[1].resource.Results) = 3
    /\ batch[2].err = Nil /\ batch[2].resource.Error = ""
    /\ Len(batch[2].resource.Results) > 0

\* what a reader of the Report sees: every Resource of both lists with the
\* elements its Results slice shows
Seen(mem, r) ==
    [Misconfigurations |->
        [n \in DOMAIN r.Misconfigurations |->
            [r.Misconfigurations[n] EXCEPT !.Results = Elements(mem, @)]],
     Vulnerabilities |->
        [n \in DOMAIN r.Vulnerabilities |->
            [r.Vulnerabilities[n] EXCEPT !.Results = Elements(mem, @)]]]

\* C26: consolidate is read-only: no step changes Misconfigurations or
\* Vulnerabilities of the Report, nor the Results list of any of its
\* Resources, also when several Resources of one key are merged one after
\* another by appends that store into the backing array of an input.
C26_ConsolidateReadOnly == [][Seen(arrays', held') = Seen(arrays, held)]_vars

\* two vulnerability Resources were merged one after another into the
\* misconfiguration Resource of their key, both appends storing behind the
\* last element of that Resource's own backing array
C26_Witness ==
    /\ found # NoCall
    /\ Len(held.Misconfigurations) = 1
    /\ Len(held.Vulnerabilities) = 2
    /\ \A n \in 1..2 : fullname(held.Vulnerabilities[n]) = fullname(held.Misconfigurations[1])
    /\ held.Misconfigurations[1].Results = [array |-> 1, len |-> 1]
    /\ arrays[1] = << <<1, 1>>, <<2, 1>>, <<3, 1>> >>
    /\ Len(found.Findings) = 1
    /\ found.Findings[1].Results = [array |-> 1, len |-> 3]

\* the places of the output where task t printed a line of kind k for its
\* result number n
Printed(t, n, k) ==
    {i \in DOMAIN output :
        output[i].task = t /\ output[i].result = n /\ output[i].kind = k}

Allowed(findings, allow) ==
    Cardinality({i \in DOMAIN findings : findings[i].Severity \in allow})

\* the misconfigurations of r with failure status
Failures(r) == SelectSeq(r.Misconfigurations, LAMBDA m : m.Status = StatusFailure)

\* the kinds of findings r holds
KindsOf(r) ==
    {k \in {"vulnerability", "secret", "misconfiguration"} :
        \/ k = "vulnerability" /\ r.Vulnerabilities # <<>>
        \/ k = "secret" /\ r.Secrets # <<>>
        \/ k = "misconfiguration" /\ Failures(r) # <<>>}

\* every finding of r has a severity of the allow-list
AllAllowed(r, allow) ==
    /\ Allowed(r.Vulnerabilities, allow) = Len(r.Vulnerabilities)
    /\ Allowed(r.Secrets, allow) = Len(r.Secrets)
    /\ Allowed(Failures(r), allow) = Len(Failures(r))

\* C28 as stated: the total equals the number of table rows only when the
\* result holds findings of one kind whose severities are all in the
\* allow-list.
C28_TotalIsRowsOnlyForOneKind ==
    \A t \in Summarised :
       LET r == Current(t)
           allow == Range(severityStrings(tw.Severities))
       IN  sums[t][1] = Len(rows[t]) =>
              Cardinality(KindsOf(r)) <= 1 /\ AllAllowed(r, allow)

\* C28, amended: the table holds one row per vulnerability, in order, when
\* the result has a vulnerability, else one row per secret; the total is the
\* number of vulnerabilities, secrets and failed misconfigurations whose
\* severity is in the allow-list; so the total is the number of rows when
\* the result holds only vulnerabilities or only secrets, all of severities
\* of the allow-list.
C28_RowsOfOneKindTotalOfAll ==
    \A t \in Summarised :
       LET r == Current(t)
           allow == Range(severityStrings(tw.Severities))
           shown == IF r.Vulnerabilities # <<>> THEN r.Vulnerabilities ELSE r.Secrets
           kind == IF r.Vulnerabilities # <<>> THEN "vulnerability" ELSE "secret"
       IN  /\ Len(rows[t]) = Len(shown)
           /\ \A i \in DOMAIN shown :
                 rows[t][i].kind = kind /\ rows[t][i].Severity = shown[i].Severity
           /\ sums[t][1] = Allowed(r.Vulnerabilities, allow)
                           + Allowed(r.Secrets, allow)
                           + Allowed(Failures(r), allow)
           /\ (KindsOf(r) \in {{"vulnerability"}, {"secret"}} /\ AllAllowed(r, allow))
                 => sums[t][1] = Len(rows[t])

\* one vulnerability of a severity outside the allow-list and one secret of
\* a severity inside it: one row, for the vulnerability, and a total of 1,
\* for the secret
C28_Witness ==
    \E t \in Summarised :
       /\ tw.Severities = <<3>>
       /\ Current(t).Vulnerabilities = <<[Severity |-> "LOW", PkgPath |-> ""]>>
       /\ Current(t).Secrets = <<[Severity |-> "HIGH"]>>
       /\ Failures(Current(t)) = <<>>
       /\ Len(rows[t]) = 1
       /\ rows[t][1].kind = "vulnerability"
       /\ sums[t][1] = 1

=============================================================================
